---- MODULE Spec2Model ----
(***************************************************************************)
(* Sequential diagnostic decision engine (jaisw07/vgs2).                   *)
(*                                                                         *)
(* KnowledgeBase      -> kb (priors and conditionals from a dataset)       *)
(* InferenceEngine    -> priors, posteriors                                *)
(* EntropyEngine      -> asked_symptoms                                    *)
(* CSPModule          -> constraints                                       *)
(* InteractiveDiagnoser / main / DiagnoserSimulator -> pc, step, ...       *)
(*                                                                         *)
(* Real numbers are exact rationals <<n, d>> in lowest terms (d > 0); the   *)
(* code's IEEE doubles differ from them by rounding only.  Entropies are   *)
(* fixed-point integers in units of 2^-FracBits bits.                      *)
(***************************************************************************)
EXTENDS Integers, Sequences, FiniteSets, TLC

VARIABLES
    kb,              \* KnowledgeBase: columns, diseases, P_disease, P_symptom_given_disease
    priors,          \* InferenceEngine.priors
    posteriors,      \* InferenceEngine.posteriors
    asked_symptoms,  \* EntropyEngine.asked_symptoms
    constraints,     \* CSPModule.constraints
    user_answers,    \* InteractiveDiagnoser.user_answers
    pc,              \* position of the driver (main / run / simulator / test harness)
    step,            \* run: loop variable `step`; simulator: `asked`
    prompts,         \* number of ask_question prompts issued in this session
    calls,           \* number of direct API calls issued by the harness
    sim,             \* DiagnoserSimulator: the row being simulated, the rows done
    build,           \* how np.argsort of this build orders equal values
    twin,            \* a second session over the same table, and what it is fed
    ret              \* the last call and what it returned or raised

vars == <<kb, priors, posteriors, asked_symptoms, constraints, user_answers,
          pc, step, prompts, calls, sim, build, twin, ret>>

None == "None"
\* -np.inf: below every finite gain
NegInf == -2147483647

-----------------------------------------------------------------------------
(* Exact rational arithmetic.                                              *)

Abs(x) == IF x < 0 THEN -x ELSE x

RECURSIVE Gcd(_, _)
Gcd(a, b) == IF b = 0 THEN a ELSE Gcd(b, a % b)

Rat(n, d) ==
    LET g == Gcd(Abs(n), d)
    IN  IF n = 0 THEN <<0, 1>> ELSE <<n \div g, d \div g>>

Zero == <<0, 1>>
One == <<1, 1>>

RAdd(x, y) ==
    LET g == Gcd(x[2], y[2])
    IN  Rat(x[1] * (y[2] \div g) + y[1] * (x[2] \div g), (x[2] \div g) * y[2])

RSub(x, y) == RAdd(x, <<-y[1], y[2]>>)

RMul(x, y) ==
    LET a == Rat(x[1], y[2])
        b == Rat(y[1], x[2])
    IN  <<a[1] * b[1], a[2] * b[2]>>

\* x / y for y > 0
RDiv(x, y) == RMul(x, <<y[2], y[1]>>)

RGeq(x, y) == x[1] * y[2] >= y[1] * x[2]

RGt(x, y) == x[1] * y[2] > y[1] * x[2]

RECURSIVE RSum(_)
RSum(v) == IF v = <<>> THEN Zero ELSE RAdd(v[1], RSum(Tail(v)))

Range(f) == {f[i] : i \in DOMAIN f}

-----------------------------------------------------------------------------
(* KnowledgeBase                                                           *)

\* Every label a dataset may use, in sorted order.
LabelOrder == <<"cold", "flu">>

\* The datasets the knowledge base is built from: the symptom columns in file
\* order and the rows (label, one 0/1 value per column).
Datasets ==
    { [columns |-> <<"mild_fever", "fatigue">>,
       rows |-> << [prognosis |-> "flu", vals |-> <<1, 1>>],
                   [prognosis |-> "flu", vals |-> <<1, 0>>],
                   [prognosis |-> "cold", vals |-> <<0, 1>>] >>],
      [columns |-> <<"mild_fever", "fatigue">>,
       rows |-> << [prognosis |-> "flu", vals |-> <<1, 0>>] >>] }

\* An identifier no dataset knows.
Stranger == "rash"

\* KnowledgeBase.__init__: smoothing defaults to 1.0
DefaultSmoothing == 1

\* The smoothing constants a directly constructed KnowledgeBase is given.
Smoothings == {0, 1}

IndexOf(seq, x) == CHOOSE i \in DOMAIN seq : seq[i] = x

\* load_dataset: symptoms are the columns other than the label, diseases the
\* sorted unique labels.
load_dataset(ds) ==
    [symptoms |-> ds.columns,
     diseases |-> SelectSeq(LabelOrder,
                            LAMBDA d : \E i \in DOMAIN ds.rows : ds.rows[i].prognosis = d),
     rows |-> ds.rows]

\* compute_probabilities: P(d) = count(d)/N,
\* P(s|d) = (count_yes + smoothing) / (count(d) + 2*smoothing).
compute_probabilities(df, smoothing) ==
    LET subset(d) == {i \in DOMAIN df.rows : df.rows[i].prognosis = d}
        count_yes(d, s) ==
            Cardinality({i \in subset(d) : df.rows[i].vals[IndexOf(df.symptoms, s)] = 1})
    IN  [symptoms |-> df.symptoms,
         diseases |-> df.diseases,
         rows |-> df.rows,
         smoothing |-> smoothing,
         P_disease |-> [d \in Range(df.diseases) |->
                            Rat(Cardinality(subset(d)), Len(df.rows))],
         P_symptom_given_disease |->
             [d \in Range(df.diseases) |->
                 [s \in Range(df.symptoms) |->
                     Rat(count_yes(d, s) + smoothing,
                         Cardinality(subset(d)) + 2 * smoothing)]]]

KnowledgeBase(ds, smoothing) == compute_probabilities(load_dataset(ds), smoothing)

\* get_P_symptom_given_disease: 0.5 for an unknown disease or symptom
get_P_symptom_given_disease(k, disease, symptom) ==
    IF disease \in DOMAIN k.P_symptom_given_disease
       /\ symptom \in DOMAIN k.P_symptom_given_disease[disease]
    THEN k.P_symptom_given_disease[disease][symptom]
    ELSE <<1, 2>>

\* get_P_disease: uniform for an unknown disease
get_P_disease(k, disease) ==
    IF disease \in DOMAIN k.P_disease
    THEN k.P_disease[disease]
    ELSE Rat(1, Len(k.diseases))

SymptomSet == Range(kb.symptoms)
DiseaseSet == Range(kb.diseases)

-----------------------------------------------------------------------------
(* InferenceEngine                                                         *)

\* InferenceEngine.__init__: priors in disease-list order
InitialPriors(k) == [i \in DOMAIN k.diseases |-> get_P_disease(k, k.diseases[i])]

\* numerators += 1e-9
Epsilon == <<1, 1000000000>>

\* self.posteriors * likelihoods for a 0/1 response
Numerators(k, post, symptom_name, user_response) ==
    LET p(i) == get_P_symptom_given_disease(k, k.diseases[i], symptom_name)
        likelihoods == [i \in DOMAIN post |->
                           IF user_response = 1 THEN p(i) ELSE RSub(One, p(i))]
    IN  [i \in DOMAIN post |-> RMul(post[i], likelihoods[i])]

\* numerators.sum() == 0
ZeroMass(k, post, symptom_name, user_response) ==
    /\ user_response # -1
    /\ RSum(Numerators(k, post, symptom_name, user_response)) = Zero

\* update_beliefs with the safeguard's total taken as sum + 1e-9 (one epsilon, not
\* one per entry)
update_beliefs_scalar_epsilon(k, post, symptom_name, user_response) ==
    IF user_response = -1
    THEN post
    ELSE LET raw == Numerators(k, post, symptom_name, user_response)
             zero == RSum(raw) = Zero
             numerators == IF zero THEN [i \in DOMAIN raw |-> RAdd(raw[i], Epsilon)]
                           ELSE raw
             total == IF zero THEN RAdd(RSum(raw), Epsilon) ELSE RSum(raw)
         IN  [i \in DOMAIN post |-> RDiv(numerators[i], total)]

\* update_beliefs without the early return: -1 falls through to the "No" likelihood
update_beliefs_unknown_as_no(k, post, symptom_name, user_response) ==
    LET raw == Numerators(k, post, symptom_name, user_response)
        numerators == IF RSum(raw) = Zero
                      THEN [i \in DOMAIN raw |-> RAdd(raw[i], Epsilon)]
                      ELSE raw
        total == RSum(numerators)
    IN  [i \in DOMAIN post |-> RDiv(numerators[i], total)]

\* update_beliefs: the posterior vector the call stores and returns
update_beliefs(k, post, symptom_name, user_response) ==
    IF user_response = -1
    THEN post
    ELSE LET raw == Numerators(k, post, symptom_name, user_response)
             numerators == IF RSum(raw) = Zero
                           THEN [i \in DOMAIN raw |-> RAdd(raw[i], Epsilon)]
                           ELSE raw
             total == RSum(numerators)
         IN  [i \in DOMAIN post |-> RDiv(numerators[i], total)]

\* get_top_diseases(1)[0][1]: the highest posterior
TopProb(post) == CHOOSE p \in Range(post) : \A q \in Range(post) : RGeq(p, q)

\* np.argsort has kind='quicksort', which is not stable: on arrays this short the
\* plain build sorts by insertion and keeps equal values in index order, a
\* vectorised build may put them the other way round
ArgsortTies == {"index_order", "reverse_index_order"}

\* whether index i comes before index j in np.argsort(post)
Before(post, ties, i, j) ==
    \/ RGt(post[j], post[i])
    \/ post[i] = post[j] /\ (IF ties = "index_order" THEN i < j ELSE i > j)

\* np.argsort(self.posteriors)
argsort(post, ties) ==
    [p \in 1..Len(post) |->
        CHOOSE i \in 1..Len(post) :
            Cardinality({j \in 1..Len(post) : Before(post, ties, j, i)}) = p - 1]

\* seq[::-1]
Reversed(seq) == [p \in 1..Len(seq) |-> seq[Len(seq) + 1 - p]]

\* top_k of the harness calls
MaxTopK == 3

\* get_top_diseases(top_k), top_k >= 0
get_top_diseases(k, ties, post, top_k) ==
    LET sorted_indices == Reversed(argsort(post, ties))
        m == IF top_k < Len(post) THEN top_k ELSE Len(post)
    IN  [p \in 1..m |-> <<k.diseases[sorted_indices[p]], post[sorted_indices[p]]>>]

\* Entropies are integers in units of 2^-FracBits; Work is the precision of the
\* mantissa the logarithm is taken of.
FracBits == 10

RECURSIVE Pow2(_)
Pow2(e) == IF e = 0 THEN 1 ELSE 2 * Pow2(e - 1)

Work == Pow2(14)

\* largest e with n * 2^e <= d  (0 < n <= d)
RECURSIVE IntLog(_, _)
IntLog(n, d) == IF 2 * n <= d THEN 1 + IntLog(2 * n, d) ELSE 0

\* the fractional bits of log2(m / Work), Work <= m < 2*Work, by repeated squaring
RECURSIVE FracLog(_, _)
FracLog(m, bits) ==
    IF bits = 0 THEN 0
    ELSE LET sq == (m * m) \div Work
         IN  IF sq >= 2 * Work
             THEN Pow2(bits - 1) + FracLog(sq \div 2, bits - 1)
             ELSE FracLog(sq, bits - 1)

\* -log2(n/d) for 0 < n <= d
NegLog2(n, d) ==
    LET e == IntLog(n, d)
    IN  e * Pow2(FracBits) + FracLog((d * Work) \div (n * Pow2(e)), FracBits)

\* -sum(p * log2(p)) over the strictly positive entries
RECURSIVE entropy(_)
entropy(p) ==
    IF p = <<>> THEN 0
    ELSE (IF p[1][1] > 0 THEN (p[1][1] * NegLog2(p[1][1], p[1][2])) \div p[1][2] ELSE 0)
         + entropy(Tail(p))

\* get_entropy
get_entropy(post) == entropy(post)

-----------------------------------------------------------------------------
(* EntropyEngine                                                           *)

\* get_unasked_symptoms without the filter
get_unasked_symptoms_all(k, asked) == k.symptoms

\* get_unasked_symptoms: in symptom-list order
get_unasked_symptoms(k, asked) == SelectSeq(k.symptoms, LAMBDA s : s \notin asked)

\* v / (v.sum() + 1e-9): the 1e-9 only keeps an all-zero v from dividing by
\* zero; on a non-zero sum its relative effect is far below 2^-FracBits.
Normalized(v) ==
    LET total == RSum(v)
    IN  IF total = Zero THEN v ELSE [i \in DOMAIN v |-> RDiv(v[i], total)]

\* p * H for a probability p and a fixed-point entropy H
Weighted(p, H) == (p[1] * H) \div p[2]

\* compute_expected_entropy
compute_expected_entropy(k, post, symptom_name) ==
    LET c(i) == get_P_symptom_given_disease(k, k.diseases[i], symptom_name)
        yes == [i \in DOMAIN post |-> RMul(post[i], c(i))]
        no == [i \in DOMAIN post |-> RMul(post[i], RSub(One, c(i)))]
        p_s1 == RSum(yes)
        p_s0 == RSub(One, p_s1)
        H_yes == entropy(Normalized(yes))
        H_no == entropy(Normalized(no))
    IN  Weighted(p_s1, H_yes) + Weighted(p_s0, H_no)

\* IG of one candidate
InformationGain(k, post, s) == get_entropy(post) - compute_expected_entropy(k, post, s)

\* the loop taking a candidate whose gain equals the best so far
RECURSIVE SelectLoop_last_max(_, _, _, _)
SelectLoop_last_max(k, post, cands, best) ==
    IF cands = <<>> THEN best
    ELSE LET IG == InformationGain(k, post, cands[1])
         IN  IF IG >= best[2]
             THEN SelectLoop_last_max(k, post, Tail(cands), <<cands[1], IG>>)
             ELSE SelectLoop_last_max(k, post, Tail(cands), best)

\* the loop of select_next_symptom over the candidates, best so far in `best`
RECURSIVE SelectLoop(_, _, _, _)
SelectLoop(k, post, cands, best) ==
    IF cands = <<>> THEN best
    ELSE LET IG == InformationGain(k, post, cands[1])
         IN  IF IG > best[2]
             THEN SelectLoop(k, post, Tail(cands), <<cands[1], IG>>)
             ELSE SelectLoop(k, post, Tail(cands), best)

\* select_next_symptom: <<best_symptom, best_gain>>
select_next_symptom(k, post, asked) ==
    SelectLoop(k, post, get_unasked_symptoms(k, asked), <<None, NegInf>>)

\* the yes-posterior simulated by calling update_beliefs on the engine itself
compute_expected_entropy_posteriors_updated(k, post, symptom_name) ==
    update_beliefs(k, post, symptom_name, 1)

\* engine.posteriors once compute_expected_entropy(symptom_name) has returned: the
\* method reads a copy of it and builds post_yes and post_no as arrays of its own
compute_expected_entropy_posteriors(k, post, symptom_name) == post

\* engine.posteriors once the loop of select_next_symptom has run over cands
RECURSIVE select_next_symptom_posteriors(_, _, _)
select_next_symptom_posteriors(k, post, cands) ==
    IF cands = <<>> THEN post
    ELSE select_next_symptom_posteriors(
             k, compute_expected_entropy_posteriors(k, post, cands[1]), Tail(cands))

\* asked_symptoms as one set shared by every EntropyEngine
mark_asked_shared(asked, symptom_name) == asked \cup asked_symptoms \cup {symptom_name}

\* mark_asked
mark_asked(asked, symptom_name) == asked \cup {symptom_name}

-----------------------------------------------------------------------------
(* CSPModule                                                               *)

Known(k) == Range(k.symptoms) \cup Range(k.diseases)

\* relevant.get(key, 0), relevant being the known keys of symptom_values
Relevant(k, symptom_values) ==
    [key \in DOMAIN symptom_values \cap Known(k) |-> symptom_values[key]]

Get(relevant, key) == IF key \in DOMAIN relevant THEN relevant[key] ELSE 0

\* the violation message of a constraint: it names the relation and both ends
Message(c) == <<"Violation", c[1], c[2], c[3]>>

\* the loop body testing the values for truth, so that -1 counts as present
Violates_unknown_as_present(relevant, c) ==
    LET a_val == Get(relevant, c[1])
        b_val == Get(relevant, c[3])
    IN  CASE c[2] = "->" -> a_val # 0 /\ b_val = 0
          [] c[2] = "XOR" -> a_val # 0 /\ b_val # 0
          [] c[2] = "requires" -> a_val # 0 /\ b_val = 0
          [] OTHER -> FALSE

\* the loop body with the implication test written as "effect is not 1"
Violates_effect_not_one(relevant, c) ==
    LET a_val == Get(relevant, c[1])
        b_val == Get(relevant, c[3])
    IN  CASE c[2] = "->" -> a_val = 1 /\ b_val # 1
          [] c[2] = "XOR" -> a_val = 1 /\ b_val = 1
          [] c[2] = "requires" -> a_val = 1 /\ b_val = 0
          [] OTHER -> FALSE

\* the body of the loop of is_valid_state for one constraint c = <<a, rel, b>>
Violates(relevant, c) ==
    LET a_val == Get(relevant, c[1])
        b_val == Get(relevant, c[3])
    IN  CASE c[2] = "->" -> a_val = 1 /\ b_val = 0
          [] c[2] = "XOR" -> a_val = 1 /\ b_val = 1
          [] c[2] = "requires" -> a_val = 1 /\ b_val = 0
          [] OTHER -> FALSE

Relations == {"->", "XOR", "requires"}

\* the loop stopping at the first violation
RECURSIVE CollectViolations_first(_, _)
CollectViolations_first(relevant, cons) ==
    IF cons = <<>> THEN <<>>
    ELSE IF Violates(relevant, cons[1]) THEN <<Message(cons[1])>>
    ELSE CollectViolations_first(relevant, Tail(cons))

RECURSIVE CollectViolations(_, _)
CollectViolations(relevant, cons) ==
    IF cons = <<>> THEN <<>>
    ELSE (IF Violates(relevant, cons[1]) THEN <<Message(cons[1])>> ELSE <<>>)
         \o CollectViolations(relevant, Tail(cons))

\* the loop with an else branch that skips a constraint of unknown relation
is_valid_state_skip_unknown(k, cons, symptom_values) ==
    LET relevant == Relevant(k, symptom_values)
        violations == CollectViolations(relevant, cons)
    IN  [raised |-> None, valid |-> violations = <<>>, violations |-> violations]

\* is_valid_state: (valid, violations), or RuntimeError on an unknown relation
is_valid_state(k, cons, symptom_values) ==
    LET relevant == Relevant(k, symptom_values)
        violations == CollectViolations(relevant, cons)
    IN  IF \E i \in DOMAIN cons : cons[i][2] \notin Relations
        THEN [raised |-> "RuntimeError", valid |-> FALSE, violations |-> <<>>]
        ELSE [raised |-> None, valid |-> violations = <<>>, violations |-> violations]

\* _check_symptom_exists
check_symptom_exists(k, name) == name \in Range(k.symptoms)

\* add_dependency appending before the effect is checked
add_dependency_append_first(k, cons, cause, effect) ==
    IF ~check_symptom_exists(k, cause)
    THEN [raised |-> "ValueError", constraints |-> cons]
    ELSE [raised |-> IF check_symptom_exists(k, effect) THEN None ELSE "ValueError",
          constraints |-> Append(cons, <<cause, "->", effect>>)]

\* add_dependency: the constraint list after the call, or ValueError
add_dependency(k, cons, cause, effect) ==
    IF check_symptom_exists(k, cause) /\ check_symptom_exists(k, effect)
    THEN [raised |-> None, constraints |-> Append(cons, <<cause, "->", effect>>)]
    ELSE [raised |-> "ValueError", constraints |-> cons]

\* add_mutual_exclusion
add_mutual_exclusion(k, cons, s1, s2) ==
    IF check_symptom_exists(k, s1) /\ check_symptom_exists(k, s2)
    THEN [raised |-> None, constraints |-> Append(cons, <<s1, "XOR", s2>>)]
    ELSE [raised |-> "ValueError", constraints |-> cons]

\* add_required_symptom_for_disease
add_required_symptom_for_disease(k, cons, symptom, disease) ==
    IF check_symptom_exists(k, symptom) /\ disease \in Range(k.diseases)
    THEN [raised |-> None, constraints |-> Append(cons, <<disease, "requires", symptom>>)]
    ELSE [raised |-> "ValueError", constraints |-> cons]

-----------------------------------------------------------------------------
(* InteractiveDiagnoser                                                    *)

\* InteractiveDiagnoser.__init__: confidence_threshold defaults to 0.8
confidence_threshold == <<4, 5>>

\* max_questions of the sessions explored
MaxQuestions == 3

\* constraints registered per session
MaxConstraints == 2

\* direct calls issued by a harness
MaxCalls == 3

Responses == {1, 0, -1}

\* update_state marking the symptom asked on a rejected answer too
update_state_mark_rejected(k, cons, answers, post, asked, symptom, response) ==
    LET temp_answers == (symptom :> response) @@ answers
        check == is_valid_state(k, cons, temp_answers)
    IN  IF check.raised # None \/ ~check.valid
        THEN [raised |-> check.raised, returned |-> FALSE, user_answers |-> answers,
              posteriors |-> post, asked_symptoms |-> mark_asked(asked, symptom)]
        ELSE [raised |-> None, returned |-> TRUE, user_answers |-> temp_answers,
              posteriors |-> update_beliefs(k, post, symptom, response),
              asked_symptoms |-> mark_asked(asked, symptom)]

\* update_state recording the answer before validating it
update_state_record_first(k, cons, answers, post, asked, symptom, response) ==
    LET temp_answers == (symptom :> response) @@ answers
        check == is_valid_state(k, cons, temp_answers)
    IN  IF check.raised # None \/ ~check.valid
        THEN [raised |-> check.raised, returned |-> FALSE, user_answers |-> temp_answers,
              posteriors |-> post, asked_symptoms |-> asked]
        ELSE [raised |-> None, returned |-> TRUE, user_answers |-> temp_answers,
              posteriors |-> update_beliefs(k, post, symptom, response),
              asked_symptoms |-> mark_asked(asked, symptom)]

\* update_state without the validation
update_state_unchecked(k, cons, answers, post, asked, symptom, response) ==
    [raised |-> None, returned |-> TRUE,
     user_answers |-> (symptom :> response) @@ answers,
     posteriors |-> update_beliefs(k, post, symptom, response),
     asked_symptoms |-> mark_asked(asked, symptom)]

\* update_state: validate the tentative answers, then record, update, mark
update_state(k, cons, answers, post, asked, symptom, response) ==
    LET temp_answers == (symptom :> response) @@ answers
        check == is_valid_state(k, cons, temp_answers)
    IN  IF check.raised # None \/ ~check.valid
        THEN [raised |-> check.raised, returned |-> FALSE, user_answers |-> answers,
              posteriors |-> post, asked_symptoms |-> asked]
        ELSE [raised |-> None, returned |-> TRUE, user_answers |-> temp_answers,
              posteriors |-> update_beliefs(k, post, symptom, response),
              asked_symptoms |-> mark_asked(asked, symptom)]

\* run, step 1: the loop over parser output, positives applied in symptom order
RECURSIVE PreFill(_, _, _, _)
PreFill(k, cons, todo, st) ==
    IF todo = <<>> THEN st
    ELSE LET symptom == todo[1]
             check == is_valid_state(k, cons, (symptom :> 1) @@ st.user_answers)
         IN  IF check.raised # None
             THEN [st EXCEPT !.raised = check.raised]
             ELSE IF check.valid
             THEN PreFill(k, cons, Tail(todo),
                          [st EXCEPT !.user_answers = (symptom :> 1) @@ @,
                                     !.posteriors = update_beliefs(k, @, symptom, 1),
                                     !.asked_symptoms = mark_asked(@, symptom)])
             ELSE PreFill(k, cons, Tail(todo),
                          [st EXCEPT !.skipped = Append(@, symptom)])

-----------------------------------------------------------------------------
(* Initial states                                                          *)

\* what a session shows to its caller: get_top_diseases(top_k) for each top_k,
\* and select_next_symptom()
SessionOutputs(k, ties, post, asked) ==
    [top |-> [top_k \in 0..MaxTopK |-> get_top_diseases(k, ties, post, top_k)],
     next |-> select_next_symptom(k, post, asked)]

\* the state after constructing the engines and the checker over knowledge base k
Constructed(k, at) ==
    /\ kb = k
    /\ priors = InitialPriors(k)
    /\ posteriors = InitialPriors(k)
    /\ asked_symptoms = {}
    /\ constraints = <<>>
    /\ user_answers = <<>>
    /\ pc = at
    /\ step = 0
    /\ prompts = 0
    /\ calls = 0
    /\ sim = [row |-> 0, done |-> {}]
    /\ twin = [posteriors |-> InitialPriors(k), asked_symptoms |-> {}, fed |-> <<>>,
               outs |-> <<SessionOutputs(k, build, InitialPriors(k), {})>>, n |-> 0]
    /\ ret = [op |-> "__init__"]

\* InteractiveDiagnoser(dataset_path): the knowledge base has the default smoothing
Init ==
    /\ build = "index_order"
    /\ \E ds \in Datasets : Constructed(KnowledgeBase(ds, DefaultSmoothing), "config")

\* CSPModule(kb) under a test harness
InitCSP ==
    /\ build = "index_order"
    /\ \E ds \in Datasets : Constructed(KnowledgeBase(ds, DefaultSmoothing), "csp")

\* InferenceEngine(kb) over a knowledge base built with any accepted smoothing
InitEngine ==
    /\ build \in ArgsortTies
    /\ \E ds \in Datasets, a \in Smoothings : Constructed(KnowledgeBase(ds, a), "engine")

Ids == SymptomSet \cup DiseaseSet \cup {Stranger}

-----------------------------------------------------------------------------
(* Constraint registration and checking                                    *)

\* who registers: a session's owner, a harness, or main.py in one of its three loops
Registering(section) ==
    pc \in {"config", "csp", section} /\ Len(constraints) < MaxConstraints

\* an uncaught ValueError ends the caller (main.py catches nothing)
AfterCall(raised) == IF raised = None THEN pc ELSE "raised"

AddDependency ==
    /\ Registering("main_dependencies")
    /\ \E cause \in Ids, effect \in Ids :
          LET r == add_dependency(kb, constraints, cause, effect)
          IN  /\ constraints' = r.constraints
              /\ ret' = [op |-> "add_dependency", a |-> cause, b |-> effect,
                         raised |-> r.raised]
              /\ pc' = AfterCall(r.raised)
    /\ UNCHANGED <<kb, sim, build, twin, priors, posteriors, asked_symptoms, user_answers, step,
                   prompts, calls>>

AddMutualExclusion ==
    /\ Registering("main_mutual_exclusions")
    /\ \E s1 \in Ids, s2 \in Ids :
          LET r == add_mutual_exclusion(kb, constraints, s1, s2)
          IN  /\ constraints' = r.constraints
              /\ ret' = [op |-> "add_mutual_exclusion", a |-> s1, b |-> s2,
                         raised |-> r.raised]
              /\ pc' = AfterCall(r.raised)
    /\ UNCHANGED <<kb, sim, build, twin, priors, posteriors, asked_symptoms, user_answers, step,
                   prompts, calls>>

AddRequiredSymptomForDisease ==
    /\ Registering("main_disease_requirements")
    /\ \E symptom \in Ids, disease \in Ids :
          LET r == add_required_symptom_for_disease(kb, constraints, symptom, disease)
          IN  /\ constraints' = r.constraints
              /\ ret' = [op |-> "add_required_symptom_for_disease", a |-> symptom,
                         b |-> disease, raised |-> r.raised]
              /\ pc' = AfterCall(r.raised)
    /\ UNCHANGED <<kb, sim, build, twin, priors, posteriors, asked_symptoms, user_answers, step,
                   prompts, calls>>

\* the assignments handed to is_valid_state: any subset of the identifiers, known
\* or not; symptoms carry 1, 0 or -1, disease flags 0 or 1
Assignments ==
    {sv \in UNION {[D -> Responses] : D \in SUBSET Ids} :
        \A key \in DOMAIN sv :
            /\ key \in DiseaseSet => sv[key] \in {0, 1}
            /\ key = Stranger => sv[key] = 1}

\* a harness calls is_valid_state once on the registered list
IsValidState ==
    /\ pc = "csp"
    /\ \E sv \in Assignments :
          LET r == is_valid_state(kb, constraints, sv)
          IN  ret' = [op |-> "is_valid_state", symptom_values |-> sv,
                      valid |-> r.valid, violations |-> r.violations,
                      raised |-> r.raised]
    /\ pc' = "checked"
    /\ UNCHANGED <<kb, sim, build, twin, priors, posteriors, asked_symptoms, constraints, user_answers,
                   step, prompts, calls>>

NextCSP == AddDependency \/ AddMutualExclusion \/ AddRequiredSymptomForDisease
           \/ IsValidState

SpecCSP == InitCSP /\ [][NextCSP]_vars

-----------------------------------------------------------------------------
(* KnowledgeBase under a harness                                           *)

\* rows of the files a harness builds tables from
MaxRows == 2

\* every file of 1..MaxRows rows over two symptom columns, each row a label and
\* a 0/1 value per column
KBDatasets ==
    LET row == {[prognosis |-> d, vals |-> v] :
                    d \in Range(LabelOrder), v \in [1..2 -> {0, 1}]}
    IN  {[columns |-> <<"mild_fever", "fatigue">>, rows |-> rows] :
            rows \in UNION {[1..n -> row] : n \in 1..MaxRows}}

\* KnowledgeBase(csv_path, smoothing=a) followed by load_dataset(): the tables
\* are still the empty dicts of __init__, no engine exists yet
InitKB ==
    /\ \E ds \in KBDatasets, a \in Smoothings :
          kb = [symptoms |-> load_dataset(ds).symptoms,
                diseases |-> load_dataset(ds).diseases,
                rows |-> load_dataset(ds).rows,
                smoothing |-> a,
                P_disease |-> <<>>,
                P_symptom_given_disease |-> <<>>]
    /\ priors = <<>>
    /\ posteriors = <<>>
    /\ asked_symptoms = {}
    /\ constraints = <<>>
    /\ user_answers = <<>>
    /\ pc = "kb_loaded"
    /\ step = 0
    /\ prompts = 0
    /\ calls = 0
    /\ sim = [row |-> 0, done |-> {}]
    /\ build = "index_order"
    /\ twin = [posteriors |-> <<>>, asked_symptoms |-> {}, fed |-> <<>>, outs |-> <<>>,
               n |-> 0]
    /\ ret = [op |-> "load_dataset"]

\* KnowledgeBase.compute_probabilities
ComputeProbabilities ==
    /\ pc = "kb_loaded"
    /\ kb' = compute_probabilities(kb, kb.smoothing)
    /\ pc' = "kb_built"
    /\ ret' = [op |-> "compute_probabilities"]
    /\ UNCHANGED <<sim, build, twin, priors, posteriors, asked_symptoms, constraints,
                   user_answers, step, prompts, calls>>

NextKB == ComputeProbabilities

SpecKB == InitKB /\ [][NextKB]_vars

-----------------------------------------------------------------------------
(* InferenceEngine under a harness                                         *)

UpdateBeliefs ==
    /\ pc = "engine"
    /\ calls < MaxCalls
    /\ \E symptom \in SymptomSet \cup {Stranger}, response \in Responses :
          LET r == update_beliefs(kb, posteriors, symptom, response)
          IN  /\ posteriors' = r
              /\ ret' = [op |-> "update_beliefs", symptom |-> symptom,
                         response |-> response, returned |-> r,
                         zero_mass |-> ZeroMass(kb, posteriors, symptom, response)]
    /\ calls' = calls + 1
    /\ UNCHANGED <<kb, sim, build, twin, priors, asked_symptoms, constraints, user_answers, pc, step,
                   prompts>>

\* InferenceEngine.reset
Reset ==
    /\ pc = "engine"
    /\ calls < MaxCalls
    /\ posteriors' = priors
    /\ ret' = [op |-> "reset"]
    /\ calls' = calls + 1
    /\ UNCHANGED <<kb, sim, build, twin, priors, asked_symptoms, constraints, user_answers, pc, step,
                   prompts>>

\* InferenceEngine.get_top_diseases(top_k)
GetTopDiseases ==
    /\ pc = "engine"
    /\ \E top_k \in 0..MaxTopK :
          ret' = [op |-> "get_top_diseases", top_k |-> top_k,
                  top |-> get_top_diseases(kb, build, posteriors, top_k)]
    /\ UNCHANGED <<kb, sim, build, twin, priors, posteriors, asked_symptoms, constraints,
                   user_answers, pc, step, prompts, calls>>

NextEngine == UpdateBeliefs \/ Reset \/ GetTopDiseases

SpecEngine == InitEngine /\ [][NextEngine]_vars

-----------------------------------------------------------------------------
(* Two sessions over one table                                             *)

\* a harness builds two InferenceEngine / EntropyEngine pairs over one knowledge base
InitTwin ==
    /\ build \in ArgsortTies
    /\ \E ds \in Datasets, a \in Smoothings : Constructed(KnowledgeBase(ds, a), "twin")

\* the first session is given the next answer of the sequence: update_beliefs,
\* then mark_asked; what it shows afterwards is noted
TwinAnswerFirst ==
    /\ pc = "twin"
    /\ Len(twin.fed) < MaxCalls
    /\ \E symptom \in SymptomSet, response \in Responses :
          /\ posteriors' = update_beliefs(kb, posteriors, symptom, response)
          /\ asked_symptoms' = mark_asked(asked_symptoms, symptom)
          /\ twin' = [twin EXCEPT
                        !.fed = Append(@, <<symptom, response>>),
                        !.outs = Append(@, SessionOutputs(kb, build, posteriors',
                                                          asked_symptoms'))]
          /\ ret' = [op |-> "first.answer", symptom |-> symptom, response |-> response]
    /\ UNCHANGED <<kb, sim, build, priors, constraints, user_answers, pc, step, prompts,
                   calls>>

\* the second session is given its next answer of the same sequence
TwinAnswerSecond ==
    /\ pc = "twin"
    /\ twin.n < Len(twin.fed)
    /\ LET symptom == twin.fed[twin.n + 1][1]
           response == twin.fed[twin.n + 1][2]
       IN  /\ twin' = [twin EXCEPT
                         !.posteriors = update_beliefs(kb, @, symptom, response),
                         !.asked_symptoms = mark_asked(@, symptom),
                         !.n = @ + 1]
           /\ ret' = [op |-> "second.answer", symptom |-> symptom, response |-> response]
    /\ UNCHANGED <<kb, sim, build, priors, posteriors, asked_symptoms, constraints,
                   user_answers, pc, step, prompts, calls>>

NextTwin == TwinAnswerFirst \/ TwinAnswerSecond

SpecTwin == InitTwin /\ [][NextTwin]_vars

-----------------------------------------------------------------------------
(* InteractiveDiagnoser.run                                                *)

\* run, mode == 'y': the parser's positives are applied, then the user is asked
\* whether to continue
RunFreeText ==
    /\ pc = "config"
    /\ \E positives \in SUBSET SymptomSet :
          LET st == PreFill(kb, constraints,
                            SelectSeq(kb.symptoms, LAMBDA s : s \in positives),
                            [user_answers |-> user_answers, posteriors |-> posteriors,
                             asked_symptoms |-> asked_symptoms, skipped |-> <<>>,
                             raised |-> None])
          IN  /\ user_answers' = st.user_answers
              /\ posteriors' = st.posteriors
              /\ asked_symptoms' = st.asked_symptoms
              /\ ret' = [op |-> "parse_text", positives |-> positives,
                         skipped |-> st.skipped, raised |-> st.raised]
              /\ pc' = IF st.raised = None THEN "cont" ELSE "raised"
    /\ UNCHANGED <<kb, sim, build, twin, priors, constraints, step, prompts, calls>>

\* run, mode != 'y': straight to the question loop
RunQuestionsOnly ==
    /\ pc = "config"
    /\ pc' = "loop"
    /\ ret' = [op |-> "run"]
    /\ UNCHANGED <<kb, sim, build, twin, priors, posteriors, asked_symptoms, constraints, user_answers,
                   step, prompts, calls>>

\* "Would you like to continue answering more questions?"
RunContinue ==
    /\ pc = "cont"
    /\ \E cont \in {"y", "n"} :
          /\ pc' = IF cont = "y" THEN "loop" ELSE "done"
          /\ ret' = [op |-> "continue", cont |-> cont]
    /\ UNCHANGED <<kb, sim, build, twin, priors, posteriors, asked_symptoms, constraints, user_answers,
                   step, prompts, calls>>

\* one pass of the for loop up to the prompt: select, skip or ask
LoopSelect ==
    /\ pc = "loop"
    /\ step < MaxQuestions
    /\ LET sel == select_next_symptom(kb, posteriors, asked_symptoms)
       IN  /\ ret' = [op |-> "select_next_symptom", symptom |-> sel[1], gain |-> sel[2]]
           /\ IF sel[1] = None \/ sel[1] \in DOMAIN user_answers
              THEN /\ step' = step + 1
                   /\ UNCHANGED <<pc, prompts>>
              ELSE /\ pc' = "ask"
                   /\ prompts' = prompts + 1
                   /\ step' = step
    /\ posteriors' = select_next_symptom_posteriors(
                         kb, posteriors, get_unasked_symptoms(kb, asked_symptoms))
    /\ UNCHANGED <<kb, sim, build, twin, priors, asked_symptoms, constraints, user_answers,
                   calls>>

\* the user's answer to the prompt: update_state, then the stopping condition
Answer ==
    /\ pc = "ask"
    /\ \E response \in Responses :
          LET r == update_state(kb, constraints, user_answers, posteriors,
                                asked_symptoms, ret.symptom, response)
          IN  /\ user_answers' = r.user_answers
              /\ posteriors' = r.posteriors
              /\ asked_symptoms' = r.asked_symptoms
              /\ ret' = [op |-> "update_state", symptom |-> ret.symptom,
                         response |-> response, returned |-> r.returned,
                         raised |-> r.raised]
              /\ IF r.raised # None
                 THEN pc' = "raised" /\ step' = step
                 ELSE IF r.returned /\ RGeq(TopProb(r.posteriors), confidence_threshold)
                 THEN pc' = "report" /\ step' = step
                 ELSE pc' = "loop" /\ step' = step + 1
    /\ UNCHANGED <<kb, sim, build, twin, priors, constraints, prompts, calls>>

\* step 3: the final report, after a break or when the loop runs out
FinalReport ==
    /\ pc = "report" \/ (pc = "loop" /\ step = MaxQuestions)
    /\ pc' = "done"
    /\ ret' = [op |-> "log_session"]
    /\ UNCHANGED <<kb, sim, build, twin, priors, posteriors, asked_symptoms, constraints, user_answers,
                   step, prompts, calls>>

Next == AddDependency \/ AddMutualExclusion \/ AddRequiredSymptomForDisease
        \/ RunFreeText \/ RunQuestionsOnly \/ RunContinue
        \/ LoopSelect \/ Answer \/ FinalReport

Spec == Init /\ [][Next]_vars

-----------------------------------------------------------------------------
(* main.py                                                                 *)

\* what class CSPModule defines
CSPModuleMethods ==
    {"__init__", "_check_symptom_exists", "add_dependency", "add_mutual_exclusion",
     "add_required_symptom_for_disease", "is_valid_state", "list_constraints"}

\* main.py after constructing the diagnoser: at the first of its three loops
InitMain ==
    /\ build = "index_order"
    /\ \E ds \in Datasets :
          Constructed(KnowledgeBase(ds, DefaultSmoothing), "main_dependencies")

\* one of the three for loops over the rules file ends
MainNextSection ==
    /\ pc \in {"main_dependencies", "main_mutual_exclusions", "main_disease_requirements"}
    /\ pc' = CASE pc = "main_dependencies" -> "main_mutual_exclusions"
               [] pc = "main_mutual_exclusions" -> "main_disease_requirements"
               [] pc = "main_disease_requirements" -> "main_check"
    /\ UNCHANGED <<kb, sim, build, twin, priors, posteriors, asked_symptoms, constraints, user_answers,
                   step, prompts, calls, ret>>

\* ok, issues = csp.check_consistency(): CSPModule has no such attribute
MainCheckConsistency ==
    /\ pc = "main_check"
    /\ "check_consistency" \notin CSPModuleMethods
    /\ ret' = [op |-> "check_consistency", raised |-> "AttributeError"]
    /\ pc' = "raised"
    /\ UNCHANGED <<kb, sim, build, twin, priors, posteriors, asked_symptoms, constraints, user_answers,
                   step, prompts, calls>>

NextMain == AddDependency \/ AddMutualExclusion \/ AddRequiredSymptomForDisease
            \/ MainNextSection \/ MainCheckConsistency

SpecMain == InitMain /\ [][NextMain]_vars

-----------------------------------------------------------------------------
(* DiagnoserSimulator.simulate_on_dataset                                  *)

\* n_samples of the simulations explored
MaxSamples == 3

\* the files simulated: the datasets above and one with a row per answer pattern
SimDatasets ==
    Datasets \cup
    { [columns |-> <<"mild_fever", "fatigue">>,
       rows |-> << [prognosis |-> "flu", vals |-> <<1, 1>>],
                   [prognosis |-> "flu", vals |-> <<1, 0>>],
                   [prognosis |-> "cold", vals |-> <<0, 1>>],
                   [prognosis |-> "cold", vals |-> <<0, 0>>] >>] }

\* DiagnoserSimulator(dataset_path) before the first case
InitSim ==
    /\ build = "index_order"
    /\ \E ds \in SimDatasets : Constructed(KnowledgeBase(ds, DefaultSmoothing), "sim_next")

\* one diagnoser made before the loop and used for every case
make_diagnoser_reused(ds) ==
    [kb |-> kb, priors |-> priors, posteriors |-> posteriors,
     asked_symptoms |-> asked_symptoms, constraints |-> constraints,
     user_answers |-> user_answers]

\* _make_diagnoser: InteractiveDiagnoser(self.dataset_path, **self.diagnoser_kwargs)
\* reads the file again and builds its own knowledge base, engines, checker and
\* answer map
make_diagnoser(ds) ==
    LET k == KnowledgeBase(ds, DefaultSmoothing)
    IN  [kb |-> k, priors |-> InitialPriors(k), posteriors |-> InitialPriors(k),
         asked_symptoms |-> {}, constraints |-> <<>>, user_answers |-> <<>>]

\* truth_map of row i
truth_map(k, i) == [s \in Range(k.symptoms) |-> k.rows[i].vals[IndexOf(k.symptoms, s)]]

\* the next sampled row and the diagnoser made for it
SimStartCase ==
    /\ pc = "sim_next"
    /\ Cardinality(sim.done) < MaxSamples
    /\ \E i \in DOMAIN kb.rows \ sim.done : sim' = [sim EXCEPT !.row = i]
    /\ LET diagnoser == make_diagnoser([columns |-> kb.symptoms, rows |-> kb.rows])
       IN  /\ kb' = diagnoser.kb
           /\ priors' = diagnoser.priors
           /\ posteriors' = diagnoser.posteriors
           /\ asked_symptoms' = diagnoser.asked_symptoms
           /\ constraints' = diagnoser.constraints
           /\ user_answers' = diagnoser.user_answers
    /\ step' = 0
    /\ prompts' = 0
    /\ pc' = "sim_loop"
    /\ ret' = [op |-> "_make_diagnoser"]
    /\ UNCHANGED <<calls, build, twin>>

\* one pass of `while asked < max_q`
SimIterate ==
    /\ pc = "sim_loop"
    /\ step < MaxQuestions
    /\ LET sel == select_next_symptom(kb, posteriors, asked_symptoms)
           symptom == sel[1]
           truth == truth_map(kb, sim.row)
           response == IF symptom \in DOMAIN truth THEN truth[symptom] ELSE -1
           check == is_valid_state(kb, constraints, (symptom :> response) @@ user_answers)
           r == update_state(kb, constraints, user_answers, posteriors, asked_symptoms,
                             symptom, response)
       IN  IF symptom = None
           THEN /\ pc' = "sim_done"
                /\ ret' = [op |-> "simulate", symptom |-> None]
                /\ UNCHANGED <<user_answers, posteriors, asked_symptoms, step, prompts>>
           ELSE IF ~check.valid
           THEN /\ asked_symptoms' = mark_asked(asked_symptoms, symptom)
                /\ step' = step + 1
                /\ prompts' = prompts + 1
                /\ ret' = [op |-> "simulate", symptom |-> symptom, response |-> -1]
                /\ UNCHANGED <<user_answers, posteriors, pc>>
           ELSE /\ user_answers' = r.user_answers
                /\ posteriors' = r.posteriors
                /\ asked_symptoms' = r.asked_symptoms
                /\ step' = step + 1
                /\ prompts' = prompts + 1
                /\ ret' = [op |-> "simulate", symptom |-> symptom, response |-> response]
                /\ pc' = IF RGeq(TopProb(r.posteriors), confidence_threshold)
                         THEN "sim_done" ELSE "sim_loop"
    /\ UNCHANGED <<kb, sim, build, twin, priors, constraints, calls>>

\* results.append(...) once the loop is left
SimRecord ==
    /\ pc = "sim_done" \/ (pc = "sim_loop" /\ step >= MaxQuestions)
    /\ sim' = [row |-> 0, done |-> sim.done \cup {sim.row}]
    /\ pc' = "sim_next"
    /\ ret' = [op |-> "results.append", questions_asked |-> step]
    /\ UNCHANGED <<kb, build, twin, priors, posteriors, asked_symptoms, constraints,
                   user_answers, step, prompts, calls>>

NextSim == SimStartCase \/ SimIterate \/ SimRecord

SpecSim == InitSim /\ [][NextSim]_vars

-----------------------------------------------------------------------------
(* Properties                                                              *)

\* the value a constraint check reads for a key: absent or unknown keys read 0
ReadFlag(asg, key) ==
    IF key \in DOMAIN asg /\ key \in SymptomSet \cup DiseaseSet THEN asg[key] ELSE 0

\* when an assignment violates a constraint <<a, rel, b>>
ConstraintViolated(c, asg) ==
    \/ c[2] = "->" /\ ReadFlag(asg, c[1]) = 1 /\ ReadFlag(asg, c[3]) = 0
    \/ c[2] = "XOR" /\ ReadFlag(asg, c[1]) = 1 /\ ReadFlag(asg, c[3]) = 1
    \/ /\ c[2] = "requires"
       /\ c[1] \in DOMAIN asg
       /\ asg[c[1]] = 1
       /\ ReadFlag(asg, c[3]) = 0

ViolatedIndices(asg) ==
    {i \in DOMAIN constraints : ConstraintViolated(constraints[i], asg)}

\* new is old after Bayes' rule on (symptom, response): proportional to
\* old * likelihood and summing to 1; unchanged on -1
IsBayesUpdate(old, new, symptom, response) ==
    IF response = -1 THEN new = old
    ELSE LET c(i) == get_P_symptom_given_disease(kb, kb.diseases[i], symptom)
             w(i) == RMul(old[i], IF response = 1 THEN c(i) ELSE RSub(One, c(i)))
         IN  /\ DOMAIN new = DOMAIN old
             /\ RSum(new) = One
             /\ \A i, j \in DOMAIN old : RMul(new[i], w(j)) = RMul(new[j], w(i))

\* C1: after any sequence of update_beliefs calls with 0/1 (or unknown) responses
\* the posterior vector sums to 1, also when the epsilon safeguard was applied.
C1_PosteriorSumsToOne == RSum(posteriors) = One

C1_Witness ==
    /\ ret.op = "update_beliefs"
    /\ ret.zero_mass
    /\ Len(posteriors) = 2
    /\ RSum(posteriors) = One

\* C2: update_beliefs(symptom, -1) leaves posteriors and priors unchanged and
\* returns the unchanged posterior.
C2_UnknownIsNoOp ==
    [][(ret'.op = "update_beliefs" /\ ret'.response = -1)
        => /\ posteriors' = posteriors
           /\ priors' = priors
           /\ ret'.returned = posteriors]_vars

C2_Witness ==
    /\ ret.op = "update_beliefs"
    /\ ret.response = -1
    /\ posteriors # priors

\* C3: select_next_symptom never returns an asked symptom, and with every symptom
\* asked it returns None with the minus-infinity gain.
C3_SelectsOnlyUnasked ==
    ret.op = "select_next_symptom"
    => /\ ret.symptom \notin asked_symptoms
       /\ ret.symptom \in SymptomSet \cup {None}
       /\ SymptomSet \subseteq asked_symptoms
            => (ret.symptom = None /\ ret.gain = NegInf)

C3_Witness ==
    /\ ret.op = "select_next_symptom"
    /\ SymptomSet \subseteq asked_symptoms
    /\ ret.symptom = None
    /\ prompts >= 2

\* C4: the loop prompts only while the top posterior is below the confidence
\* threshold and fewer than max_questions prompts were issued before.
C4_PromptsOnlyBelowThreshold ==
    pc = "ask"
    => /\ ~RGeq(TopProb(posteriors), confidence_threshold)
       /\ prompts - 1 < MaxQuestions

\* C5: update_state on a tentative assignment that violates a constraint returns
\* False without raising and changes nothing; on a valid one it records the
\* answer, applies the update and marks the symptom asked.
C5_UpdateStateRejectsOrApplies ==
    [][pc = "ask"
        => LET tentative == (ret.symptom :> ret'.response) @@ user_answers
           IN  /\ ret'.raised = None
               /\ IF ViolatedIndices(tentative) # {}
                  THEN /\ ret'.returned = FALSE
                       /\ user_answers' = user_answers
                       /\ posteriors' = posteriors
                       /\ asked_symptoms' = asked_symptoms
                  ELSE /\ ret'.returned = TRUE
                       /\ user_answers' = tentative
                       /\ IsBayesUpdate(posteriors, posteriors', ret.symptom,
                                        ret'.response)
                       /\ asked_symptoms' = asked_symptoms \cup {ret.symptom}]_vars

C5_Witness ==
    /\ ret.op = "update_state"
    /\ ret.returned = FALSE
    /\ ret.symptom \notin DOMAIN user_answers
    /\ user_answers # <<>>

\* C6: with the constraints registered before the first answer, the accumulated
\* answers always satisfy every registered constraint.
C6_AnswersStayConsistent ==
    /\ is_valid_state(kb, constraints, user_answers).valid
    /\ ViolatedIndices(user_answers) = {}

C6_Witness ==
    /\ ret.op = "update_state"
    /\ ret.returned
    /\ \E i \in DOMAIN constraints :
          /\ constraints[i][2] = "->"
          /\ constraints[i][1] # constraints[i][3]
          /\ constraints[i][1] \in DOMAIN user_answers
          /\ user_answers[constraints[i][1]] = 1

\* C7: with implication(a -> b) and then mutual_exclusion(a, b) registered,
\* check_consistency() returns not-ok with at least one issue.
C7_ContradictionReported ==
    (/\ ret.op = "check_consistency"
     /\ \E i, j \in DOMAIN constraints :
           /\ i < j
           /\ constraints[i][2] = "->"
           /\ constraints[j] = <<constraints[i][1], "XOR", constraints[i][3]>>)
    => /\ ret.raised = None
       /\ ret.ok = FALSE
       /\ Len(ret.issues) >= 1

\* C8: is_valid_state returns valid = False iff some registered constraint is
\* violated by the assignment (absent and unknown keys read as 0).
C8_InvalidIffViolated ==
    ret.op = "is_valid_state"
    => /\ ret.raised = None
       /\ (ret.valid = FALSE) <=> (ViolatedIndices(ret.symptom_values) # {})

C8_Witness ==
    /\ ret.op = "is_valid_state"
    /\ ret.valid
    /\ \E i \in DOMAIN constraints :
          /\ constraints[i][2] = "->"
          /\ ReadFlag(ret.symptom_values, constraints[i][1]) = 1
          /\ ReadFlag(ret.symptom_values, constraints[i][3]) = -1
    /\ Stranger \in DOMAIN ret.symptom_values

\* the violated constraints in registration order
ViolatedInOrder(asg) == SelectSeq(constraints, LAMBDA c : ConstraintViolated(c, asg))

\* C9: the violations list has exactly one entry per violated constraint, in
\* registration order, each naming both ends, and is empty iff the verdict is valid.
C9_AllViolationsInOrder ==
    ret.op = "is_valid_state"
    => LET expected == ViolatedInOrder(ret.symptom_values)
       IN  /\ Len(ret.violations) = Len(expected)
           /\ \A i \in DOMAIN expected :
                 ret.violations[i] = <<"Violation", expected[i][1], expected[i][2],
                                       expected[i][3]>>
           /\ (ret.violations = <<>>) <=> ret.valid

C9_Witness ==
    /\ ret.op = "is_valid_state"
    /\ Len(ret.violations) = 2
    /\ ret.violations[1] # ret.violations[2]

AddOps == {"add_dependency", "add_mutual_exclusion", "add_required_symptom_for_disease"}

\* whether the identifiers of a registration call are known to the knowledge base
ArgsKnown(call) ==
    IF call.op = "add_required_symptom_for_disease"
    THEN call.a \in SymptomSet /\ call.b \in DiseaseSet
    ELSE call.a \in SymptomSet /\ call.b \in SymptomSet

\* the constraint a registration call stands for
Registered(call) ==
    CASE call.op = "add_dependency" -> <<call.a, "->", call.b>>
      [] call.op = "add_mutual_exclusion" -> <<call.a, "XOR", call.b>>
      [] call.op = "add_required_symptom_for_disease" -> <<call.b, "requires", call.a>>

\* C10: a registration with an unknown identifier raises and leaves the list as it
\* was; one with known identifiers appends exactly one constraint at the end.
C10_RegistrationChecksIdentifiers ==
    [][ret'.op \in AddOps
        => IF ArgsKnown(ret')
           THEN /\ ret'.raised = None
                /\ constraints' = Append(constraints, Registered(ret'))
           ELSE /\ ret'.raised = "ValueError"
                /\ constraints' = constraints]_vars

C10_Witness ==
    /\ ret.op \in AddOps
    /\ ret.raised = "ValueError"
    /\ Len(constraints) >= 1

\* a constraint list with a constraint of another relation put at position i
WithForeign(cons, i) ==
    SubSeq(cons, 1, i - 1) \o <<<<kb.symptoms[1], "OR", kb.symptoms[1]>>>>
    \o SubSeq(cons, i, Len(cons))

\* C11: no constraint with a relation other than implication, mutual exclusion
\* and disease-requires-symptom is ever in the registered list, and a check never
\* skips one: on a list holding one, wherever it stands, is_valid_state raises.
C11_UnknownRelationIsFatal ==
    /\ \A i \in DOMAIN constraints : constraints[i][2] \in Relations
    /\ ret.op = "is_valid_state"
       => /\ ret.raised = None
          /\ \A i \in 1..(Len(constraints) + 1) :
                is_valid_state(kb, WithForeign(constraints, i),
                               ret.symptom_values).raised = "RuntimeError"

C11_Witness ==
    /\ ret.op = "is_valid_state"
    /\ Len(constraints) = 2
    /\ {constraints[1][2], constraints[2][2]} = {"XOR", "requires"}
    /\ ret.valid = FALSE

\* C12: two sessions over one table given the same answers in the same order show
\* the same get_top_diseases(k) and the same next question after each answer,
\* however far the other session has run ahead.
C12_SessionsAgree ==
    pc = "twin"
    => /\ SessionOutputs(kb, build, twin.posteriors, twin.asked_symptoms)
            = twin.outs[twin.n + 1]
       /\ twin.n = Len(twin.fed)
            => twin.posteriors = posteriors /\ twin.asked_symptoms = asked_symptoms

C12_Witness ==
    /\ pc = "twin"
    /\ twin.n = 2
    /\ Len(twin.fed) = 3
    /\ twin.posteriors # posteriors
    /\ twin.asked_symptoms # asked_symptoms
    /\ twin.outs[3].next[1] # None
    /\ twin.outs[3] # twin.outs[4]

\* C13: get_top_diseases(k) returns the min(k, number of diseases) diseases of
\* highest posterior in non-increasing order, equal posteriors in the order of
\* the disease list.
C13_TopDiseasesStable ==
    ret.op = "get_top_diseases"
    => LET top == ret.top
           n == Len(kb.diseases)
           at(p) == IndexOf(kb.diseases, top[p][1])
       IN  /\ Len(top) = IF ret.top_k < n THEN ret.top_k ELSE n
           /\ \A p \in DOMAIN top : top[p][2] = posteriors[at(p)]
           /\ \A p, q \in DOMAIN top : p < q => at(p) # at(q) /\ RGeq(top[p][2], top[q][2])
           /\ \A p \in DOMAIN top, i \in 1..n :
                 (\A q \in DOMAIN top : at(q) # i) => RGeq(top[p][2], posteriors[i])
           /\ \A p, q \in DOMAIN top : (p < q /\ top[p][2] = top[q][2]) => at(p) < at(q)

\* C14: with an unasked symptom left, select_next_symptom returns an unasked
\* symptom of maximal information gain, and of those the first in the symptom
\* order of the knowledge base.
C14_SelectsFirstMaximalGain ==
    (ret.op = "select_next_symptom" /\ SymptomSet \ asked_symptoms # {})
    => LET pool == SymptomSet \ asked_symptoms
           gain(s) == get_entropy(posteriors) - compute_expected_entropy(kb, posteriors, s)
       IN  /\ ret.symptom \in pool
           /\ ret.gain = gain(ret.symptom)
           /\ \A s \in pool : gain(s) <= ret.gain
           /\ \A s \in pool :
                 gain(s) = ret.gain
                 => IndexOf(kb.symptoms, ret.symptom) <= IndexOf(kb.symptoms, s)

C14_Witness ==
    /\ ret.op = "select_next_symptom"
    /\ ret.symptom = kb.symptoms[1]
    /\ kb.symptoms[2] \notin asked_symptoms
    /\ ret.gain = get_entropy(posteriors)
                    - compute_expected_entropy(kb, posteriors, kb.symptoms[2])

\* C15: select_next_symptom, with the compute_expected_entropy calls it makes,
\* leaves the engine's posteriors, the priors and the asked set as they were.
C15_SelectionIsHypothetical ==
    [][ret'.op = "select_next_symptom"
        => /\ posteriors' = posteriors
           /\ priors' = priors
           /\ asked_symptoms' = asked_symptoms]_vars

C15_Witness ==
    /\ ret.op = "select_next_symptom"
    /\ ret.symptom \in SymptomSet
    /\ ret.gain > 0
    /\ posteriors # priors
    /\ asked_symptoms # {}

\* C16: every simulated case starts on a new session: the posterior equals the
\* priors of the table, nothing is asked and nothing is answered, whatever the
\* cases before it did.
C16_CaseStartsFresh ==
    ret.op = "_make_diagnoser"
    => /\ posteriors = priors
       /\ priors = [i \in DOMAIN kb.diseases |-> get_P_disease(kb, kb.diseases[i])]
       /\ asked_symptoms = {}
       /\ user_answers = <<>>
       /\ step = 0

C16_Witness ==
    /\ ret.op = "_make_diagnoser"
    /\ Cardinality(sim.done) = 2
    /\ Len(kb.diseases) = 2
    /\ posteriors = priors
    /\ asked_symptoms = {}

\* C17: in every table compute_probabilities builds from a non-empty 0/1 dataset,
\* with any smoothing the constructor accepts, the priors sum to 1 and every
\* conditional is (count_yes + alpha) / (count_d + 2 alpha), strictly between 0 and 1.
C17_TableIsProper ==
    ret.op = "compute_probabilities"
    => /\ RSum([i \in DOMAIN kb.diseases |-> kb.P_disease[kb.diseases[i]]]) = One
       /\ \A d \in DiseaseSet, s \in SymptomSet :
             LET in_d == {i \in DOMAIN kb.rows : kb.rows[i].prognosis = d}
                 yes == {i \in in_d : kb.rows[i].vals[IndexOf(kb.symptoms, s)] = 1}
                 c == kb.P_symptom_given_disease[d][s]
             IN  /\ c[1] * (Cardinality(in_d) + 2 * kb.smoothing)
                       = c[2] * (Cardinality(yes) + kb.smoothing)
                 /\ RGt(c, Zero)
                 /\ RGt(One, c)

\* C18: a rejected answer leaves belief and asked set as they were and uses up one
\* step of the loop; the selection that follows it returns the same symptom
\* again; and never more than max_questions prompts are issued.
C18_RejectedIsReaskedWithinBudget ==
    [][/\ (pc = "ask" /\ ret'.returned = FALSE)
          => /\ asked_symptoms' = asked_symptoms
             /\ posteriors' = posteriors
             /\ user_answers' = user_answers
             /\ step' = step + 1
       /\ (ret.op = "update_state" /\ ret.returned = FALSE
           /\ ret'.op = "select_next_symptom")
          => /\ ret'.symptom = ret.symptom
             /\ pc' = "ask"
       /\ step' <= MaxQuestions
       /\ prompts' <= MaxQuestions]_vars

C18_Witness ==
    /\ pc = "ask"
    /\ prompts = 3
    /\ step = 2
    /\ asked_symptoms = {}
    /\ user_answers = <<>>
    /\ ret.symptom \in SymptomSet

\* C19: an unknown (-1) answer to a symptom not answered before is accepted
\* whatever the constraints: update_state returns True, records the -1, marks the
\* symptom asked and leaves the posterior as it was.
C19_UnknownIsNeverRejected ==
    [][(pc = "ask" /\ ret'.response = -1)
        => /\ ViolatedIndices(user_answers) = {}
           /\ ret.symptom \notin DOMAIN user_answers
           /\ ret'.returned = TRUE
           /\ ret'.raised = None
           /\ user_answers' = (ret.symptom :> -1) @@ user_answers
           /\ asked_symptoms' = asked_symptoms \cup {ret.symptom}
           /\ posteriors' = posteriors]_vars

C19_Witness ==
    /\ ret.op = "update_state"
    /\ ret.response = -1
    /\ ret.returned
    /\ \E i \in DOMAIN constraints :
          /\ constraints[i][2] = "XOR"
          /\ constraints[i][3] = ret.symptom
          /\ constraints[i][1] # ret.symptom
          /\ constraints[i][1] \in DOMAIN user_answers
          /\ user_answers[constraints[i][1]] = 1

====
